---- MODULE Spec2Model ----
(***************************************************************************)
(* LearnableParameter (Source/ComputationNetworkLib/InputAndParamNodes.cpp) *)
(* One parameter node: its tensor shape, its value matrix, the deferred    *)
(* initialization recorded in m_initString, and the stream written by      *)
(* Save and read by Load.                                                  *)
(***************************************************************************)
EXTENDS Integers, Sequences, FiniteSets, TLC

VARIABLES node,        \* the fields of the LearnableParameter object, and the exception its last call raised
          randomSeed,  \* static unsigned long randomSeed of the config constructor, one for
                       \* each instantiation of the class template
          stream,      \* the File the last call was given: what Save wrote, what Load read;
                       \* NoStream after a call that took no File
          lastOp       \* the method that ran last

vars == <<node, randomSeed, stream, lastOp>>

---------------------------------------------------------------------------
(* Bounds of the model *)
MaxRank == 2        \* longest shape the node is constructed with or offered
MaxDim == 2         \* largest dimension; largest row / column count of a file
MaxFills == 2       \* the ghost counters of executed initializations saturate here
MaxVersion == 4     \* model versions are 1..MaxVersion
MaxCounter == 3     \* no parameter is made once a static randomSeed has come this far
MaxArrayRank == 4   \* longest shape of a node that InitFromArray is called on
MaxArrayDim == 3    \* largest dimension of such a shape
MaxRows == 4        \* most rows of the array given to InitFromArray
MaxCols == 6        \* most columns of that array

Dims == 0..MaxDim
Values == {0, 1}     \* the scalars a config or a caller gives

RECURSIVE SeqsUpTo(_, _)
SeqsUpTo(S, n) ==
    IF n = 0 THEN {<<>>}
    ELSE LET shorter == SeqsUpTo(S, n - 1)
         IN  shorter \cup {Append(s, d) : s \in {t \in shorter : Len(t) = n - 1}, d \in S}

Shapes == SeqsUpTo(Dims, MaxRank)

---------------------------------------------------------------------------
(* TensorShape *)

RECURSIVE Product(_)
Product(dims) == IF dims = <<>> THEN 1 ELSE Head(dims) * Product(Tail(dims))

\* TensorShape::GetNumElements: the product of the dimensions; a shape of rank 0
\* has no elements (InitFromArray tests dims.size() == 0 under GetNumElements() == 0)
GetNumElements(dims) == IF Len(dims) = 0 THEN 0 ELSE Product(dims)

GetRank(dims) == Len(dims)

\* TensorShape::AppendInPlace(rank, newDim) with rank = GetRank(): one more trailing dimension
AppendInPlace(dims, newDim) == Append(dims, newDim)

\* ComputationNode::DetermineDataSize for a node without minibatch layout
MatrixRows(dims) == IF Len(dims) > 0 THEN dims[1] ELSE 1
MatrixCols(dims) == IF MatrixRows(dims) > 0 THEN GetNumElements(dims) \div MatrixRows(dims) ELSE 0

---------------------------------------------------------------------------
(* Matrix values.  An element is <<kind, p, q, r, i>>.                     *)

InvalidElem == <<"invalid", 0, 0, 0, 0>>
\* Matrix::SetValue(v)
ConstElem(v) == <<"value", v, 0, 0, 0>>
\* SetUniformRandomValue(-randRange, randRange, seed); randRange in units of 0.01
UniformElem(seed, randRange, i) == <<"uniform", seed, randRange, 0, i>>
\* SetGaussianRandomValue(0, randInitstd, seed); randInitstd = num / sqrt(inputSize), num in units of 0.01
GaussianElem(seed, num, inputSize, i) == <<"gaussian", seed, num, inputSize, i>>
\* the i-th number of the matrix text of a file or of a literal
ArrayElem(src, i) == <<src, 0, 0, 0, i>>

\* the matrix of rows x cols elements whose first element is `first`: the elements of a
\* kind that has an index (the last component, not 0) differ by that index alone
Matrix(rows, cols, first) ==
    [rows |-> rows, cols |-> cols,
     data |-> [i \in 1..(rows * cols) |-> IF first[5] = 0 THEN first ELSE [first EXCEPT ![5] = i]]]

---------------------------------------------------------------------------
(* The node.  err is the exception the running call has raised ("none"    *)
(* when it has raised none); ranInit tells that the running call has        *)
(* executed a deferred initialization, and nInitSinceRequest counts those  *)
(* executions since the last request of one.                               *)

Raise(n, e) == [n EXCEPT !.err = e]
Failed(n) == n.err # "none"
Min(a, b) == IF a < b THEN a ELSE b

\* ComputationNodeBase::SetDims(shape, false)
SetDims(n, shape) == [n EXCEPT !.m_sampleLayout = shape]

\* ComputationNode::VerifyDataSize(Value()): the matrix must have the size the shape asks for
VerifyDataSize(n) ==
    IF n.m_value.rows = MatrixRows(n.m_sampleLayout) /\ n.m_value.cols = MatrixCols(n.m_sampleLayout)
    THEN n
    ELSE Raise(n, "LogicError")

\* template class LearnableParameter<float>; template class LearnableParameter<double>;
ElemTypes == {"float", "double"}

\* LearnableParameter<float>(deviceId, name, shape): the constructor the config constructor delegates to
PlainConstructor(shape) ==
    [m_sampleLayout |-> shape,
     m_value |-> Matrix(MatrixRows(shape), MatrixCols(shape), InvalidElem),
     m_initString |-> "",
     m_initValue |-> 0,
     m_randomSeed |-> 0,
     m_initValueScale |-> 0,
     m_initOnCPUOnly |-> FALSE,
     m_learningRateMultiplier |-> 1,
     ElemType |-> "float",
     err |-> "none",
     ranInit |-> FALSE,
     nInitSinceRequest |-> 0]

InitShape(n, shape) ==
    [n EXCEPT !.m_sampleLayout = shape,                                              \* SetDims(shape, false)
              !.m_value = Matrix(MatrixRows(shape), MatrixCols(shape), InvalidElem)]     \* UpdateFunctionValuesSize(); Value().Invalidate()

InitRandom(n, uniformInit, seed, initValueScale, initOnCPUOnly) ==
    LET rows == n.m_value.rows
        cols == n.m_value.cols
    IN  IF uniformInit
        THEN [n EXCEPT !.m_value = Matrix(rows, cols, UniformElem(seed, 5 * initValueScale, 1))]
        ELSE [n EXCEPT !.m_value = Matrix(rows, cols, GaussianElem(seed, 20 * initValueScale, cols, 1))]

\* the bookkeeping of one executed initialization
CountInit(n) == [n EXCEPT !.nInitSinceRequest = Min(@ + 1, MaxFills), !.ranInit = TRUE]
\* the bookkeeping of one requested initialization
CountRequest(n) == [n EXCEPT !.nInitSinceRequest = 0]

LazyInitNoClear(n) ==
    IF n.m_initString = "" THEN n
    ELSE IF GetNumElements(n.m_sampleLayout) = 0 THEN n
    ELSE IF n.m_initString = "fromValue"
         THEN CountInit([n EXCEPT !.m_value = Matrix(n.m_value.rows, n.m_value.cols, ConstElem(n.m_initValue))])
    ELSE IF n.m_initString \in {"uniform", "gaussian"}
         THEN CountInit(InitRandom(n, n.m_initString = "uniform", n.m_randomSeed, n.m_initValueScale, n.m_initOnCPUOnly))
    ELSE Raise(n, "LogicError")
LazyInitNoShapeTest(n) ==
    IF n.m_initString = "" THEN n
    ELSE IF n.m_initString = "fromValue"
         THEN CountInit([n EXCEPT !.m_value = Matrix(n.m_value.rows, n.m_value.cols, ConstElem(n.m_initValue)),
                                  !.m_initString = ""])
    ELSE IF n.m_initString \in {"uniform", "gaussian"}
         THEN CountInit([InitRandom(n, n.m_initString = "uniform", n.m_randomSeed, n.m_initValueScale, n.m_initOnCPUOnly)
                            EXCEPT !.m_initString = ""])
    ELSE Raise(n, "LogicError")
LazyInitParameters(n) ==
    IF n.m_initString = "" THEN n                                    \* no lazy init pending
    ELSE IF GetNumElements(n.m_sampleLayout) = 0 THEN n              \* not all dimensions known: keep it pending
    ELSE IF n.m_initString = "fromValue"
         THEN CountInit([n EXCEPT !.m_value = Matrix(n.m_value.rows, n.m_value.cols, ConstElem(n.m_initValue)),
                                  !.m_initString = ""])
    ELSE IF n.m_initString \in {"uniform", "gaussian"}
         THEN CountInit([InitRandom(n, n.m_initString = "uniform", n.m_randomSeed, n.m_initValueScale, n.m_initOnCPUOnly)
                            EXCEPT !.m_initString = ""])
    ELSE Raise(n, "LogicError")

\* an initialization that is still pending is kept instead of replaced
PostInitKeepsPending(n, initString, initValue, seed, initOnCPUOnly) ==
    IF n.m_initString # "" /\ initString \in {"uniform", "gaussian", "fixedValue"}
    THEN LazyInitParameters(CountRequest(n))
    ELSE IF initString \in {"uniform", "gaussian"}
    THEN LazyInitParameters(CountRequest([n EXCEPT !.m_initString = initString,
                                                   !.m_randomSeed = seed,
                                                   !.m_initValueScale = initValue,
                                                   !.m_initOnCPUOnly = initOnCPUOnly]))
    ELSE IF initString = "fixedValue"
    THEN LazyInitParameters(CountRequest([n EXCEPT !.m_initString = "fromValue",
                                                   !.m_initValue = initValue]))
    ELSE Raise(n, "LogicError")
PostInitParameters(n, initString, initValue, seed, initOnCPUOnly) ==
    IF initString \in {"uniform", "gaussian"}
    THEN LazyInitParameters(CountRequest([n EXCEPT !.m_initString = initString,
                                                   !.m_randomSeed = seed,
                                                   !.m_initValueScale = initValue,
                                                   !.m_initOnCPUOnly = initOnCPUOnly]))
    ELSE IF initString = "fixedValue"
    THEN LazyInitParameters(CountRequest([n EXCEPT !.m_initString = "fromValue",
                                                   !.m_initValue = initValue]))
    ELSE Raise(n, "LogicError")

---------------------------------------------------------------------------
(* Initialization from a matrix read from a file or a literal *)

\* the loop of InitFromArray over the dimensions after the first (k is 1-based here,
\* so position k is the code's k - 1 and zeroDim = 0 still means "not found")
RECURSIVE ScanDims(_, _, _, _)
ScanDims(dims, k, zeroDim, prod) ==
    IF k > Len(dims) THEN [err |-> "none", zeroDim |-> zeroDim, prod |-> prod]
    ELSE IF dims[k] # 0 THEN ScanDims(dims, k + 1, zeroDim, prod * dims[k])
    ELSE IF zeroDim = 0 THEN ScanDims(dims, k + 1, k, prod)
    ELSE [err |-> "InvalidArgument", zeroDim |-> zeroDim, prod |-> prod]

\* the rank inference of InitFromArray
InferRank(dims, numCols) ==
    LET d1 == IF Len(dims) = 0 THEN <<0>> ELSE dims
    IN  IF Len(d1) = 1 /\ numCols # 1 THEN Append(d1, 0) ELSE d1

\* the dimensions InitFromArray hands to SetDims for a shape with no elements,
\* or the InvalidArgument it raises
InferDimsNoDivTest(dims, numRows, numCols) ==
    LET d2 == InferRank(dims, numCols)
        d3 == IF d2[1] = 0 THEN [d2 EXCEPT ![1] = numRows] ELSE d2
        scan == ScanDims(d3, 2, 0, 1)
    IN  IF scan.err # "none" THEN [err |-> scan.err, dims |-> dims]
        ELSE IF scan.zeroDim # 0
        THEN [err |-> "none", dims |-> [d3 EXCEPT ![scan.zeroDim] = numCols \div scan.prod]]
        ELSE [err |-> "none", dims |-> d3]
InferDimsFromArray(dims, numRows, numCols) ==
    LET d2 == InferRank(dims, numCols)
        d3 == IF d2[1] = 0 THEN [d2 EXCEPT ![1] = numRows] ELSE d2     \* infer #rows
        scan == ScanDims(d3, 2, 0, 1)
    IN  IF scan.err # "none" THEN [err |-> scan.err, dims |-> dims]    \* too many unknown dimensions
        ELSE IF scan.zeroDim # 0
        THEN LET q == numCols \div scan.prod
             IN  IF scan.prod * q # numCols
                 THEN [err |-> "InvalidArgument", dims |-> dims]       \* cannot hold a numRows x numCols matrix
                 ELSE [err |-> "none", dims |-> [d3 EXCEPT ![scan.zeroDim] = q]]
        ELSE [err |-> "none", dims |-> d3]

InitFromArray(n, src, numRows, numCols) ==
    LET inferred == IF GetNumElements(n.m_sampleLayout) = 0
                    THEN InferDimsFromArray(n.m_sampleLayout, numRows, numCols)
                    ELSE [err |-> "none", dims |-> n.m_sampleLayout]
    IN  IF inferred.err # "none" THEN Raise(n, inferred.err)
        ELSE VerifyDataSize([n EXCEPT !.m_sampleLayout = inferred.dims,
                                      !.m_value = Matrix(numRows, numCols, ArrayElem(src, 1))])

\* File::LoadMatrixFromTextFile fails on a file it cannot read
InitFromFile(n, file) ==
    IF ~file.readable THEN Raise(n, "RuntimeError")
    ELSE InitFromArray(n, "file", file.rows, file.cols)

\* the failure of the load is not caught
ReviseNoCatch(n, file) == InitFromFile(n, file)
\* a load that succeeds counts as the initialization and clears m_initString
ReviseClearsPending(n, file) ==
    LET r == InitFromFile(n, file)
    IN  IF Failed(r) THEN Raise(r, "RuntimeError") ELSE [r EXCEPT !.m_initString = ""]
ReviseFromFile(n, file) ==
    LET r == InitFromFile(n, file)
    IN  IF Failed(r) THEN Raise(r, "RuntimeError") ELSE r

---------------------------------------------------------------------------
(* Save and Load *)

CNTK_MODEL_VERSION_3 == 3

NoStream == [format |-> "none"]

\* the stream Save writes: Base::Save, m_learningRateMultiplier, m_sampleLayout, Value()
Written(n) ==
    [format |-> "current",
     base |-> "base",
     learningRateMultiplier |-> n.m_learningRateMultiplier,
     sampleLayout |-> n.m_sampleLayout,
     value |-> n.m_value]

\* Save(n, s): the node (Save is const but for the exception) and the stream after the call
SaveAlways(n, s) == [node |-> n, stream |-> Written(n)]
Save(n, s) ==
    IF n.m_initString # ""
    THEN [node |-> Raise(n, "LogicError"), stream |-> s]
    ELSE [node |-> n, stream |-> Written(n)]

\* ComputationNode::LoadValue: reads the matrix, which overwrites m_sampleLayout
LoadValue(n, value) == [n EXCEPT !.m_value = value, !.m_sampleLayout = <<value.rows, value.cols>>]

\* a header that appends the column count whenever it is not 0
LoadedHeaderAppendNonzero(s, modelVersion) ==
    IF modelVersion >= CNTK_MODEL_VERSION_3
    THEN [learningRateMultiplier |-> s.learningRateMultiplier, sampleLayout |-> s.sampleLayout]
    ELSE [learningRateMultiplier |-> IF s.parameterUpdateRequired THEN 1 ELSE 0,
          sampleLayout |-> IF s.rows # 0 THEN <<s.rows, s.cols>>
                           ELSE IF s.cols > 0 THEN AppendInPlace(s.sampleLayout, s.cols)
                           ELSE s.sampleLayout]

\* the shape and the multiplier Load reads before the value
LoadedHeader(s, modelVersion) ==
    IF modelVersion >= CNTK_MODEL_VERSION_3
    THEN [learningRateMultiplier |-> s.learningRateMultiplier, sampleLayout |-> s.sampleLayout]
    ELSE [learningRateMultiplier |-> IF s.parameterUpdateRequired THEN 1 ELSE 0,
          sampleLayout |-> IF s.rows # 0 THEN <<s.rows, s.cols>>
                           ELSE IF s.cols > 1 THEN AppendInPlace(s.sampleLayout, s.cols)
                           ELSE s.sampleLayout]

LoadKeepPending(n, s, modelVersion) ==
    LET h == LoadedHeader(s, modelVersion)
    IN  VerifyDataSize(SetDims([LoadValue(n, s.value) EXCEPT !.m_learningRateMultiplier = h.learningRateMultiplier],
                               h.sampleLayout))
LoadKeepValueDims(n, s, modelVersion) ==
    LET h == LoadedHeader(s, modelVersion)
        r == [LoadValue(n, s.value) EXCEPT !.m_learningRateMultiplier = h.learningRateMultiplier]
    IN  IF Failed(r) THEN r ELSE [r EXCEPT !.m_initString = ""]
Load(n, s, modelVersion) ==
    LET h == LoadedHeader(s, modelVersion)
        r == VerifyDataSize(SetDims([LoadValue(n, s.value) EXCEPT !.m_learningRateMultiplier = h.learningRateMultiplier],
                                    h.sampleLayout))
    IN  IF Failed(r) THEN r ELSE [r EXCEPT !.m_initString = ""]

---------------------------------------------------------------------------
(* Inference of the dimensions from another node's shape *)

\* every dimension of thisShape replaced by the dimension of otherShape at the same place
FillAll(thisShape, otherShape) ==
    [i \in 1..Len(thisShape) |-> otherShape[i]]
\* every zero of thisShape replaced by the dimension of otherShape at the same place
FillZeroes(thisShape, otherShape) ==
    [i \in 1..Len(thisShape) |-> IF thisShape[i] = 0 THEN otherShape[i] ELSE thisShape[i]]

\* a peer of another rank is adopted instead of skipped
InferAdoptOnRankMismatch(n, otherShape) ==
    LET thisShape == n.m_sampleLayout
        hasMissingDims == GetRank(thisShape) = 0 \/ GetNumElements(thisShape) = 0
    IN  IF ~hasMissingDims THEN n
        ELSE IF GetRank(otherShape) = 0 \/ GetNumElements(otherShape) = 0 THEN n
        ELSE IF n.m_initString = "" THEN Raise(n, "LogicError")
        ELSE IF GetRank(thisShape) # GetRank(otherShape) THEN LazyInitParameters(InitShape(n, otherShape))
        ELSE LazyInitParameters(InitShape(n, FillZeroes(thisShape, otherShape)))
\* nothing is initialized after the shape has been adopted
InferNoLazyInit(n, otherShape) ==
    LET thisShape == n.m_sampleLayout
        hasMissingDims == GetRank(thisShape) = 0 \/ GetNumElements(thisShape) = 0
        hasAnyDim == \E i \in 1..Len(thisShape) : thisShape[i] # 0
    IN  IF ~hasMissingDims THEN n
        ELSE IF GetRank(otherShape) = 0 \/ GetNumElements(otherShape) = 0 THEN n
        ELSE IF n.m_initString = "" THEN Raise(n, "LogicError")
        ELSE IF ~hasAnyDim THEN InitShape(n, otherShape)
        ELSE IF GetRank(thisShape) # 0 /\ GetRank(thisShape) # GetRank(otherShape) THEN n
        ELSE InitShape(n, FillZeroes(thisShape, otherShape))
\* the dimensions are inferred although no initialization is pending
InferNoPendingTest(n, otherShape) ==
    LET thisShape == n.m_sampleLayout
        hasMissingDims == GetRank(thisShape) = 0 \/ GetNumElements(thisShape) = 0
        hasAnyDim == \E i \in 1..Len(thisShape) : thisShape[i] # 0
    IN  IF ~hasMissingDims THEN n
        ELSE IF GetRank(otherShape) = 0 \/ GetNumElements(otherShape) = 0 THEN n
        ELSE IF ~hasAnyDim THEN LazyInitParameters(InitShape(n, otherShape))
        ELSE IF GetRank(thisShape) # 0 /\ GetRank(thisShape) # GetRank(otherShape) THEN n
        ELSE LazyInitParameters(InitShape(n, FillZeroes(thisShape, otherShape)))
InferInputDimsFrom(n, otherShape) ==
    LET thisShape == n.m_sampleLayout
        hasMissingDims == GetRank(thisShape) = 0 \/ GetNumElements(thisShape) = 0
        hasAnyDim == \E i \in 1..Len(thisShape) : thisShape[i] # 0
    IN  IF ~hasMissingDims THEN n
        ELSE IF GetRank(otherShape) = 0 \/ GetNumElements(otherShape) = 0 THEN n
        ELSE IF n.m_initString = "" THEN Raise(n, "LogicError")
        ELSE IF ~hasAnyDim THEN LazyInitParameters(InitShape(n, otherShape))
        ELSE IF GetRank(thisShape) # 0 /\ GetRank(thisShape) # GetRank(otherShape) THEN n
        ELSE LazyInitParameters(InitShape(n, FillZeroes(thisShape, otherShape)))

\* Validate: Base::Validate and m_pMBLayout = nullptr; the lazy initialization in it is compiled out
Validate(n, isFinalValidationPass) == n

\* the multiplier is halved instead of set to 0
FreezeHalve(n) == [n EXCEPT !.m_learningRateMultiplier = @ \div 2]
FreezeParameters(n) == [n EXCEPT !.m_learningRateMultiplier = 0]

\* Base::CopyTo: with copyNodeValue the target receives the sample layout and the value
BaseCopyTo(n, target, copyNodeValue) ==
    IF copyNodeValue
    THEN [target EXCEPT !.m_sampleLayout = n.m_sampleLayout, !.m_value = n.m_value]
    ELSE target

\* CopyTo(nodeP, newName, flags): the result is the target node
CopyTo(n, target, copyNodeValue) ==
    LET node1 == BaseCopyTo(n, target, copyNodeValue)
    IN  IF copyNodeValue
        THEN [node1 EXCEPT !.m_initString = n.m_initString,
                           !.m_randomSeed = n.m_randomSeed,
                           !.m_initValueScale = n.m_initValueScale,
                           !.m_initOnCPUOnly = n.m_initOnCPUOnly,
                           !.m_initValue = n.m_initValue]
        ELSE node1

---------------------------------------------------------------------------
(* The constructor from a config record *)

NoFile == [name |-> "", readable |-> FALSE, rows |-> 0, cols |-> 0]
\* a path and what File::LoadMatrixFromTextFile finds there
Files == {[name |-> "f", readable |-> FALSE, rows |-> 0, cols |-> 0]}
         \cup [name : {"f"}, readable : {TRUE}, rows : 1..MaxDim, cols : 1..MaxDim]
\* a literal and what File::LoadMatrixFromStringLiteral parses it to
Literals == [name : {"l"}, readable : {TRUE}, rows : 1..MaxDim, cols : 1..MaxDim]

InitTokens == {"", "uniform", "gaussian", "zero", "fromValue", "fromValueArray",
               "fromFile", "fixedValue", "fromLiteral", "other"}

\* configp->Get(L"initValue"): an empty string, a string, a scalar, an array, or something else
InitValues == {[type |-> "String", str |-> "", num |-> 0], [type |-> "String", str |-> "x", num |-> 0],
               [type |-> "ConfigArray", str |-> "", num |-> 0], [type |-> "Other", str |-> "", num |-> 0]}
              \cup {[type |-> "Double", str |-> "", num |-> v] : v \in Values}

\* a given initValue is looked at before a given initFromFilePath
ResolveValueFirst(cfg) ==
    IF cfg.init # "" THEN [err |-> "none", initString |-> cfg.init]
    ELSE IF cfg.initValue.type # "String"
         THEN IF cfg.initValue.type = "Double" THEN [err |-> "none", initString |-> "fromValue"]
              ELSE IF cfg.initValue.type = "ConfigArray" THEN [err |-> "none", initString |-> "fromValueArray"]
              ELSE [err |-> "InvalidArgument", initString |-> ""]
    ELSE IF cfg.initFromFilePath.name # "" THEN [err |-> "none", initString |-> "fromFile"]
    ELSE IF cfg.initValue.str # "" THEN [err |-> "InvalidArgument", initString |-> ""]
    ELSE [err |-> "none", initString |-> "uniform"]
\* the init string the constructor settles on, or the InvalidArgument it raises
ResolveInitString(cfg) ==
    IF cfg.init # "" THEN [err |-> "none", initString |-> cfg.init]
    ELSE IF cfg.initFromFilePath.name # "" THEN [err |-> "none", initString |-> "fromFile"]
    ELSE IF cfg.initValue.type # "String"
         THEN IF cfg.initValue.type = "Double" THEN [err |-> "none", initString |-> "fromValue"]
              ELSE IF cfg.initValue.type = "ConfigArray" THEN [err |-> "none", initString |-> "fromValueArray"]
              ELSE [err |-> "InvalidArgument", initString |-> ""]
    ELSE IF cfg.initValue.str # "" THEN [err |-> "InvalidArgument", initString |-> ""]
    ELSE [err |-> "none", initString |-> "uniform"]

\* the part of the constructor that records or runs the initialization, up to and
\* including its LazyInitParameters(); rs is the static randomSeed
ConstructInit(n, rs, cfg, initString) ==
    IF initString \in {"uniform", "gaussian"}
    THEN [node |-> LazyInitParameters(CountRequest(
                     [n EXCEPT !.m_initString = initString,
                               !.m_randomSeed = IF cfg.randomSeed < 0 THEN rs ELSE cfg.randomSeed,
                               !.m_initValueScale = cfg.initValueScale,
                               !.m_initOnCPUOnly = cfg.initOnCPUOnly])),
          randomSeed |-> IF cfg.randomSeed < 0 THEN rs + 1 ELSE rs]
    ELSE IF initString = "zero"
    THEN [node |-> LazyInitParameters(CountRequest([n EXCEPT !.m_initString = "fromValue", !.m_initValue = 0])),
          randomSeed |-> rs]
    ELSE IF initString = "fromValue"
    THEN IF cfg.initValue.type # "Double"
         THEN [node |-> Raise([n EXCEPT !.m_initString = initString], "ConfigError"), randomSeed |-> rs]
         ELSE [node |-> LazyInitParameters(CountRequest([n EXCEPT !.m_initString = initString,
                                                                  !.m_initValue = cfg.initValue.num])),
               randomSeed |-> rs]
    ELSE IF initString = "fromValueArray"
    THEN [node |-> Raise(n, "InvalidArgument"), randomSeed |-> rs]
    ELSE IF initString = "fromFile"
    THEN IF cfg.initFromFilePath.name = ""
         THEN [node |-> Raise(n, "RuntimeError"), randomSeed |-> rs]
         ELSE LET r == InitFromFile(n, cfg.initFromFilePath)
              IN  [node |-> IF Failed(r) THEN r ELSE LazyInitParameters([r EXCEPT !.m_initString = ""]),
                   randomSeed |-> rs]
    ELSE IF initString = "fixedValue"
    THEN [node |-> LazyInitParameters(CountRequest([n EXCEPT !.m_initString = "fromValue", !.m_initValue = cfg.value])),
          randomSeed |-> rs]
    ELSE IF initString = "fromLiteral"
    THEN IF cfg.initFromLiteral.name = ""
         THEN [node |-> Raise(n, "RuntimeError"), randomSeed |-> rs]
         ELSE LET r == InitFromArray(n, "literal", cfg.initFromLiteral.rows, cfg.initFromLiteral.cols)
              IN  [node |-> IF Failed(r) THEN r ELSE LazyInitParameters([r EXCEPT !.m_initString = ""]),
                   randomSeed |-> rs]
    ELSE [node |-> Raise(n, "RuntimeError"), randomSeed |-> rs]

\* LearnableParameter(configp), after the delegated constructor has made n
ConstructFromConfig(n, rs, cfg) ==
    LET n1 == IF cfg.learningRateMultiplier >= 0
              THEN [n EXCEPT !.m_learningRateMultiplier = cfg.learningRateMultiplier]
              ELSE IF cfg.needsGradient THEN Raise(n, "InvalidArgument")
              ELSE n
        resolved == ResolveInitString(cfg)
    IN  IF Failed(n1) THEN [node |-> n1, randomSeed |-> rs]
        ELSE IF resolved.err # "none" THEN [node |-> Raise(n1, resolved.err), randomSeed |-> rs]
        ELSE ConstructInit(n1, rs, cfg, resolved.initString)

---------------------------------------------------------------------------
(* The inputs of the calls *)

Multipliers == {2}
Seeds == {0}          \* the random seed a config or a caller forces
FullShapes == {s \in Shapes : GetNumElements(s) # 0}
\* the shapes offered to InferInputDimsFrom: the full ones, the empty one and one with a 0
PeerShapes == FullShapes \cup {<<>>, <<0>>}

EmptyString == [type |-> "String", str |-> "", num |-> 0]

\* init, initFromFilePath and initValue: every combination when no init is named, and
\* with a named init the entries that init reads (the others are left out of the record)
ConfigInits ==
    [init : {""}, initFromFilePath : {NoFile} \cup Files, initValue : InitValues]
    \cup [init : {"fromFile"}, initFromFilePath : {NoFile} \cup Files, initValue : {EmptyString}]
    \cup [init : {"fromValue"}, initFromFilePath : {NoFile}, initValue : InitValues]
    \cup [init : InitTokens \ {"", "fromFile", "fromValue"}, initFromFilePath : {NoFile}, initValue : {EmptyString}]

\* learningRateMultiplier (-1: not given) and whether a deprecated needsGradient name is given
ConfigMultipliers ==
    [learningRateMultiplier : {-1}, needsGradient : BOOLEAN]
    \cup [learningRateMultiplier : Multipliers, needsGradient : {FALSE}]

\* the config entries only one kind of initialization reads
ConfigTails(head) ==
    LET resolved == ResolveInitString(head)
        none == [randomSeed |-> -1, initValueScale |-> 1, initOnCPUOnly |-> FALSE, value |-> 0,
                 initFromLiteral |-> NoFile]
    IN  IF resolved.initString \in {"uniform", "gaussian"}
        THEN {[none EXCEPT !.randomSeed = sd, !.initValueScale = sc, !.initOnCPUOnly = cpu] :
                 sd \in {-1} \cup Seeds, sc \in Values, cpu \in BOOLEAN}
        ELSE IF resolved.initString = "fixedValue"
        THEN {[none EXCEPT !.value = v] : v \in Values}
        ELSE IF resolved.initString = "fromLiteral"
        THEN {[none EXCEPT !.initFromLiteral = l] : l \in {NoFile} \cup Literals}
        ELSE {none}

Join(head, m, tail) ==
    [init |-> head.init, initFromFilePath |-> head.initFromFilePath, initValue |-> head.initValue,
     learningRateMultiplier |-> m.learningRateMultiplier, needsGradient |-> m.needsGradient,
     randomSeed |-> tail.randomSeed, initValueScale |-> tail.initValueScale,
     initOnCPUOnly |-> tail.initOnCPUOnly, value |-> tail.value, initFromLiteral |-> tail.initFromLiteral]

Configs == UNION {{Join(head, m, tail) : m \in ConfigMultipliers, tail \in ConfigTails(head)} : head \in ConfigInits}

\* the shapes the streams of other runs hold: the empty one and those of one dimension
StreamShapes == {<<>>} \cup {<<d>> : d \in Dims}

\* a stream in a legacy format: the flag, the row and column counts, the shape the
\* stream holds when the row count is 0, and the matrix
LegacyHeaders ==
    [format : {"legacy"}, parameterUpdateRequired : BOOLEAN, rows : 1..MaxDim, cols : Dims, sampleLayout : {<<>>}]
    \cup [format : {"legacy"}, parameterUpdateRequired : BOOLEAN, rows : {0}, cols : Dims, sampleLayout : StreamShapes]

WithValue(header, value) ==
    [format |-> header.format, parameterUpdateRequired |-> header.parameterUpdateRequired,
     rows |-> header.rows, cols |-> header.cols, sampleLayout |-> header.sampleLayout, value |-> value]

\* the matrix of a legacy stream: of the size of the stream's shape, or one row more
LegacyStreams ==
    UNION {LET dims == LoadedHeader(h, 1).sampleLayout
           IN  {WithValue(h, Matrix(MatrixRows(dims) + extra, MatrixCols(dims), ArrayElem("stream", 1))) :
                   extra \in {0, 1}} : h \in LegacyHeaders}

\* a stream of the current format: the matrix of the size of the shape, or one row more
CurrentStreams ==
    {[format |-> "current", base |-> "base", learningRateMultiplier |-> m, sampleLayout |-> dims,
      value |-> Matrix(MatrixRows(dims) + extra, MatrixCols(dims), ArrayElem("stream", 1))] :
        m \in Multipliers, dims \in StreamShapes, extra \in {0, 1}}

---------------------------------------------------------------------------
(* The state machine *)

Init ==
    /\ node \in {PlainConstructor(shape) : shape \in Shapes}
    /\ randomSeed = [t \in ElemTypes |-> 1]
    /\ stream = NoStream
    /\ lastOp = "new"

\* the object exists: its constructor has not thrown
Alive == ~(lastOp = "Construct" /\ Failed(node))
\* the node as a call finds it
Entry == [node EXCEPT !.err = "none", !.ranInit = FALSE]

Construct ==
    /\ lastOp = "new"
    /\ \E cfg \in Configs :
          LET r == ConstructFromConfig(node, randomSeed[node.ElemType], cfg)
          IN  node' = r.node /\ randomSeed' = [randomSeed EXCEPT ![node.ElemType] = r.randomSeed]
    /\ lastOp' = "Construct"
    /\ UNCHANGED stream

\* the delegated constructor of the next parameter of the process, of either element type
NewParameter ==
    /\ lastOp # "new"
    /\ \A t \in ElemTypes : randomSeed[t] < MaxCounter
    /\ \E shape \in Shapes, t \in ElemTypes : node' = [PlainConstructor(shape) EXCEPT !.ElemType = t]
    /\ lastOp' = "new"
    /\ stream' = NoStream
    /\ UNCHANGED randomSeed

CallPostInitParameters ==
    /\ Alive
    /\ \E initString \in {"uniform", "gaussian", "fixedValue", "other"}, initValue \in Values,
          seed \in Seeds, initOnCPUOnly \in {FALSE} :   \* initOnCPUOnly is left at its default
          node' = PostInitParameters(Entry, initString, initValue, seed, initOnCPUOnly)
    /\ lastOp' = "PostInitParameters"
    /\ stream' = NoStream
    /\ UNCHANGED randomSeed

CallInitShape ==
    /\ Alive
    /\ \E shape \in Shapes : node' = InitShape(Entry, shape)
    /\ lastOp' = "InitShape"
    /\ stream' = NoStream
    /\ UNCHANGED randomSeed

CallInferInputDimsFrom ==
    /\ Alive
    /\ \E otherShape \in PeerShapes : node' = InferInputDimsFrom(Entry, otherShape)
    /\ lastOp' = "InferInputDimsFrom"
    /\ stream' = NoStream
    /\ UNCHANGED randomSeed

CallLazyInitParameters ==
    /\ Alive
    /\ node' = LazyInitParameters(Entry)
    /\ lastOp' = "LazyInitParameters"
    /\ stream' = NoStream
    /\ UNCHANGED randomSeed

CallValidate ==
    /\ Alive
    /\ \E isFinalValidationPass \in BOOLEAN : node' = Validate(Entry, isFinalValidationPass)
    /\ lastOp' = "Validate"
    /\ stream' = NoStream
    /\ UNCHANGED randomSeed

CallReviseFromFile ==
    /\ Alive
    /\ \E file \in Files : node' = ReviseFromFile(Entry, file)
    /\ lastOp' = "ReviseFromFile"
    /\ stream' = NoStream
    /\ UNCHANGED randomSeed

CallFreezeParameters ==
    /\ Alive
    /\ node' = FreezeParameters(Entry)
    /\ lastOp' = "FreezeParameters"
    /\ stream' = NoStream
    /\ UNCHANGED randomSeed

CallSave ==
    /\ Alive
    /\ LET r == Save(Entry, stream)
       IN  node' = r.node /\ stream' = r.stream
    /\ lastOp' = "Save"
    /\ UNCHANGED randomSeed

\* Load of the stream the preceding Save wrote, into this node or into a node just made
\* by the plain constructor
CallLoadSaved ==
    /\ Alive
    /\ stream.format = "current"
    /\ \E modelVersion \in CNTK_MODEL_VERSION_3..MaxVersion,
          target \in {Entry} \cup {PlainConstructor(shape) : shape \in Shapes} :
          node' = Load(target, stream, modelVersion)
    /\ lastOp' = "LoadSaved"
    /\ UNCHANGED <<randomSeed, stream>>

\* Load of a stream of the current format that some other run wrote
CallLoad ==
    /\ Alive
    /\ \E s \in CurrentStreams, modelVersion \in CNTK_MODEL_VERSION_3..MaxVersion :
          node' = Load(Entry, s, modelVersion) /\ stream' = s
    /\ lastOp' = "Load"
    /\ UNCHANGED randomSeed

\* Load of a stream of a version before CNTK_MODEL_VERSION_3
CallLoadLegacy ==
    /\ Alive
    /\ \E s \in LegacyStreams, modelVersion \in 1..(CNTK_MODEL_VERSION_3 - 1) :
          node' = Load(Entry, s, modelVersion) /\ stream' = s
    /\ lastOp' = "LoadLegacy"
    /\ UNCHANGED randomSeed

\* InitFromArray with an array of numRows x numCols elements
CallInitFromArray ==
    /\ Alive
    /\ \E numRows \in 1..MaxRows, numCols \in 1..MaxCols :
          node' = InitFromArray(Entry, "array", numRows, numCols)
    /\ lastOp' = "InitFromArray"
    /\ stream' = NoStream
    /\ UNCHANGED randomSeed

\* CopyTo into a node of the same element type made by the plain constructor; the target is
\* the node that is followed from here on
CallCopyTo ==
    /\ Alive
    /\ \E shape \in Shapes, copyNodeValue \in BOOLEAN :
          node' = CopyTo(Entry, [PlainConstructor(shape) EXCEPT !.ElemType = node.ElemType], copyNodeValue)
    /\ lastOp' = "CopyTo"
    /\ stream' = NoStream
    /\ UNCHANGED randomSeed

Next ==
    \/ Construct
    \/ CallCopyTo
    \/ CallPostInitParameters
    \/ CallInitShape
    \/ CallInferInputDimsFrom
    \/ CallLazyInitParameters
    \/ CallValidate
    \/ CallReviseFromFile
    \/ CallFreezeParameters
    \/ CallSave
    \/ CallLoadSaved
    \/ CallLoad
    \/ CallLoadLegacy
    \/ CallInitFromArray
    \/ NewParameter

Spec == Init /\ [][Next]_vars

\* the calls that neither read a file nor load a stream
NextCore ==
    \/ Construct
    \/ CallPostInitParameters
    \/ CallInitShape
    \/ CallInferInputDimsFrom
    \/ CallLazyInitParameters
    \/ CallValidate
    \/ CallSave

SpecCore == Init /\ [][NextCore]_vars

\* construction and the loading of streams that other runs wrote
NextLoad ==
    \/ Construct
    \/ CallLoad
    \/ CallLoadLegacy
    \/ CallLazyInitParameters

SpecLoad == Init /\ [][NextLoad]_vars

\* construction, the reloading of the matrix from a file, Save, and Load of what Save wrote
NextRoundTrip ==
    \/ Construct
    \/ CallReviseFromFile
    \/ CallSave
    \/ CallLoadSaved

SpecRoundTrip == Init /\ [][NextRoundTrip]_vars

\* InitFromArray on nodes the plain constructor made with shapes of up to MaxArrayRank
\* dimensions
ArrayShapes == SeqsUpTo(0..MaxArrayDim, MaxArrayRank)

InitArray ==
    /\ node \in {PlainConstructor(shape) : shape \in ArrayShapes}
    /\ randomSeed = [t \in ElemTypes |-> 1]
    /\ stream = NoStream
    /\ lastOp = "new"

SpecArray == InitArray /\ [][CallInitFromArray]_vars

\* construction and the inference of dimensions from the shape of another node
NextInfer ==
    \/ Construct
    \/ CallInferInputDimsFrom

SpecInfer == Init /\ [][NextInfer]_vars

\* the constructions of the parameters of one process, one after the other
NextProcess ==
    \/ Construct
    \/ NewParameter

SpecProcess == Init /\ [][NextProcess]_vars

\* construction and FreezeParameters
NextFreeze ==
    \/ Construct
    \/ CallFreezeParameters

SpecFreeze == Init /\ [][NextFreeze]_vars

\* ReviseFromFile on nodes the plain constructor made with shapes of up to MaxArrayRank
\* dimensions
SpecRevise == InitArray /\ [][CallReviseFromFile]_vars

\* construction alone
\* the operations that set the shape or the pending initialization
NextPending ==
    \/ Construct
    \/ CallPostInitParameters
    \/ CallInitShape
    \/ CallInferInputDimsFrom
    \/ CallReviseFromFile
    \/ CallLoad
    \/ CallCopyTo

SpecPending == Init /\ [][NextPending]_vars

\* construction, the setting of the shape and the attempts to initialize
NextLazy ==
    \/ Construct
    \/ CallInitShape
    \/ CallLazyInitParameters

SpecLazy == Init /\ [][NextLazy]_vars

\* construction and the reloading of the value from a file
NextReload ==
    \/ Construct
    \/ CallReviseFromFile

SpecReload == Init /\ [][NextReload]_vars

\* construction and the later requests for an initialization
NextPostInit ==
    \/ Construct
    \/ CallPostInitParameters

SpecPostInit == Init /\ [][NextPostInit]_vars

SpecConstruct == Init /\ [][Construct]_vars

---------------------------------------------------------------------------
(* Properties *)

\* a shape is fully known: it has dimensions and none of them is 0
NoZeroDimension(dims) == Len(dims) > 0 /\ \A i \in 1..Len(dims) : dims[i] # 0
HasZeroDimension(dims) == \E i \in 1..Len(dims) : dims[i] = 0
Pending(n) == n.m_initString # ""
\* the matrix has one element for each element of the shape, and each of them is e
FilledWith(n, e) ==
    /\ Len(n.m_value.data) = Product(n.m_sampleLayout)
    /\ \A i \in 1..Len(n.m_value.data) : n.m_value.data[i] = e
\* the matrix is what the recorded strategy `was` (a node with that strategy pending) makes
FilledBy(n, was) ==
    /\ Len(n.m_value.data) = Product(n.m_sampleLayout)
    /\ \A i \in 1..Len(n.m_value.data) :
          n.m_value.data[i] =
             IF was.m_initString = "fromValue" THEN ConstElem(was.m_initValue)
             ELSE IF was.m_initString = "stream" THEN ArrayElem("stream", i)
             ELSE IF was.m_initString = "file" THEN ArrayElem("file", i)
             ELSE IF was.m_initString = "literal" THEN ArrayElem("literal", i)
             ELSE IF was.m_initString = "uniform" THEN UniformElem(was.m_randomSeed, 5 * was.m_initValueScale, i)
             ELSE GaussianElem(was.m_randomSeed, 20 * was.m_initValueScale, n.m_value.cols, i)

\* the configs that select the fromValue strategy with the scalar v
FromValueConfigs(v) ==
    {cfg \in Configs :
        \/ cfg.init = "" /\ cfg.initFromFilePath = NoFile /\ cfg.initValue.type = "Double" /\ cfg.initValue.num = v
        \/ cfg.init = "fromValue" /\ cfg.initValue.type = "Double" /\ cfg.initValue.num = v
        \/ cfg.init = "zero" /\ v = 0}

\* C1: a construction with the fromValue strategy and a shape without zero dimension
\* returns with every element of the matrix equal to v and m_initString empty.
C1_FromValueInConstructor ==
    [][(lastOp = "new" /\ lastOp' = "Construct" /\ NoZeroDimension(node.m_sampleLayout)) =>
          \A v \in Values : \A cfg \in FromValueConfigs(v) :
             (node' = ConstructFromConfig(node, randomSeed[node.ElemType], cfg).node /\ ~Failed(node')) =>
                (FilledWith(node', ConstElem(v)) /\ ~Pending(node'))]_vars

C1_Witness ==
    /\ lastOp = "Construct" /\ ~Failed(node)
    /\ node.m_sampleLayout = <<2, 2>>
    /\ node.m_initValue = 1 /\ node.nInitSinceRequest = 1
    /\ FilledWith(node, ConstElem(1)) /\ ~Pending(node)

\* C2: when the constructor or PostInitParameters returns, an initialization is pending
\* if and only if the shape is empty or has a zero dimension.
C2_PendingIffShapeUnknown ==
    (lastOp \in {"Construct", "PostInitParameters"} /\ ~Failed(node)) =>
        (Pending(node) <=> ~NoZeroDimension(node.m_sampleLayout))

C2_Witness ==
    /\ lastOp = "PostInitParameters" /\ ~Failed(node)
    /\ node.m_initString = "uniform" /\ node.m_sampleLayout = <<2, 0>>

Executes == node'.ranInit

\* C4, as claimed: over any sequence of calls a deferred initialization fills the matrix
\* only when the shape has no zero dimension, and never again once one has executed.
C4_ExecutesOnce ==
    /\ [][Executes => NoZeroDimension(node'.m_sampleLayout)]_vars
    /\ [][node.nInitSinceRequest >= 1 => ~Executes]_vars

\* C4, amended: each requested initialization fills the matrix at most once, and only
\* when the shape has no zero dimension (it stays pending, unexecuted, until then); a
\* later request by PostInitParameters fills the matrix again.
C4_ExecutesOncePerRequest ==
    /\ [](node.nInitSinceRequest <= 1)
    /\ [][Executes => NoZeroDimension(node'.m_sampleLayout)]_vars
    /\ [][(node.nInitSinceRequest >= 1 /\ Executes) => lastOp' = "PostInitParameters"]_vars

C4_Witness ==
    /\ lastOp = "InferInputDimsFrom" /\ node.nInitSinceRequest = 1
    /\ ~Pending(node) /\ node.m_sampleLayout = <<2, 1>>
    /\ FilledBy(node, [node EXCEPT !.m_initString = "uniform"])

\* C5: Save on a node with an initialization pending raises LogicError and writes nothing;
\* Save writes the base fields, the multiplier, the shape and the matrix of the node only
\* when m_initString is empty.
C5_SaveRefusesPending ==
    [][lastOp' = "Save" =>
          IF Pending(node)
          THEN node'.err = "LogicError" /\ stream' = stream
          ELSE /\ node'.err = "none"
               /\ stream' = [format |-> "current", base |-> "base",
                             learningRateMultiplier |-> node.m_learningRateMultiplier,
                             sampleLayout |-> node.m_sampleLayout, value |-> node.m_value]]_vars

C5_Witness ==
    /\ lastOp = "Save" /\ node.err = "LogicError"
    /\ node.m_initString = "fromValue" /\ stream = NoStream

LoadOps == {"Load", "LoadLegacy"}

\* C6: after a Load that succeeds, of a stream of any version into a node in any state,
\* m_initString is empty, and a LazyInitParameters call that follows leaves the loaded
\* matrix as it is.
C6_LoadClearsPending ==
    /\ []((lastOp \in LoadOps /\ ~Failed(node)) => ~Pending(node))
    /\ [][(lastOp \in LoadOps /\ ~Failed(node) /\ lastOp' = "LazyInitParameters") =>
             (node'.m_value = node.m_value /\ ~Executes /\ ~Pending(node'))]_vars

\* a node whose fromValue initialization with 1 never ran has loaded a stream, and
\* LazyInitParameters has since been called
C6_Witness ==
    /\ lastOp = "LazyInitParameters" /\ ~Failed(node)
    /\ node.m_initValue = 1 /\ node.nInitSinceRequest = 0 /\ ~Pending(node)
    /\ node.m_sampleLayout = <<2>>
    /\ FilledBy(node, [node EXCEPT !.m_initString = "stream"])

\* C7: Load, at a version from CNTK_MODEL_VERSION_3 on, of the stream that Save wrote for
\* a node with m_initString empty succeeds and yields the shape, the multiplier and the
\* matrix of the saved node, with m_initString empty.
C7_RoundTrip ==
    [][(lastOp = "Save" /\ ~Failed(node) /\ lastOp' = "LoadSaved") =>
          (/\ ~Failed(node')
           /\ node'.m_sampleLayout = node.m_sampleLayout
           /\ node'.m_learningRateMultiplier = node.m_learningRateMultiplier
           /\ node'.m_value = node.m_value
           /\ ~Pending(node'))]_vars

\* C8: a Load of a legacy stream that succeeds leaves the multiplier 1 or 0 as the flag
\* of the stream is set or not; the shape is [rows, cols] when the stream's row count is
\* not 0, and else the shape the stream holds, with cols appended exactly when cols > 1.
C8_LegacyShape ==
    (lastOp = "LoadLegacy" /\ ~Failed(node)) =>
        /\ node.m_learningRateMultiplier = (IF stream.parameterUpdateRequired THEN 1 ELSE 0)
        /\ node.m_sampleLayout =
              IF stream.rows # 0 THEN <<stream.rows, stream.cols>>
              ELSE IF stream.cols > 1 THEN stream.sampleLayout \o <<stream.cols>>
              ELSE stream.sampleLayout

C8_Witness ==
    /\ lastOp = "LoadLegacy" /\ ~Failed(node)
    /\ stream.rows = 0 /\ stream.cols = 2 /\ stream.sampleLayout = <<1>>
    /\ node.m_sampleLayout = <<1, 2>> /\ node.m_learningRateMultiplier = 1

\* the product of the nonzero dimensions of dims at the positions in K
RECURSIVE ProductOfKnown(_, _)
ProductOfKnown(dims, K) ==
    IF K = {} THEN 1
    ELSE LET k == CHOOSE x \in K : TRUE
         IN  (IF dims[k] = 0 THEN 1 ELSE dims[k]) * ProductOfKnown(dims, K \ {k})

\* C9: InitFromArray with R x C data on a node whose shape has no elements: the empty
\* shape counts as [0], and a shape of one dimension gets a second, 0, when C # 1; with
\* more than one 0 after the first dimension the call raises InvalidArgument; with exactly
\* one, it raises InvalidArgument unless the product of the nonzero dimensions after the
\* first divides C, and else that 0 becomes the quotient; a first dimension of 0 becomes R.
\* E.g. R = 4, C = 6 and [0, 0, 3] give [4, 2, 3], and [0, 0, 0, 3] fails.
C9_ArrayShapeInference ==
    /\ [][(lastOp' = "InitFromArray" /\ GetNumElements(node.m_sampleLayout) = 0) =>
             \A R \in 1..MaxRows, C \in 1..MaxCols :
                node' = InitFromArray(Entry, "array", R, C) =>
                   LET d0 == IF node.m_sampleLayout = <<>> THEN <<0>> ELSE node.m_sampleLayout
                       d1 == IF Len(d0) = 1 /\ C # 1 THEN d0 \o <<0>> ELSE d0
                       tail == 2..Len(d1)
                       zeros == {k \in tail : d1[k] = 0}
                       known == ProductOfKnown(d1, tail)
                   IN  IF Cardinality(zeros) > 1 THEN node'.err = "InvalidArgument"
                       ELSE IF Cardinality(zeros) = 1 /\ C % known # 0 THEN node'.err = "InvalidArgument"
                       ELSE /\ node'.err # "InvalidArgument"
                            /\ node'.m_sampleLayout =
                                  [k \in 1..Len(d1) |->
                                      IF d1[k] # 0 THEN d1[k]
                                      ELSE IF k = 1 THEN R
                                      ELSE C \div known]]_vars
    /\ [](InferDimsFromArray(<<0, 0, 3>>, 4, 6) = [err |-> "none", dims |-> <<4, 2, 3>>])
    /\ [](InferDimsFromArray(<<0, 0, 0, 3>>, 4, 6).err = "InvalidArgument")

C9_Witness ==
    /\ lastOp = "InitFromArray" /\ ~Failed(node)
    /\ node.m_sampleLayout = <<4, 2, 3>>
    /\ node.m_value.rows = 4 /\ node.m_value.cols = 6

\* C10: InferInputDimsFrom on a node with an initialization pending and dimensions
\* missing, given a shape without zero dimension: when the node's shape has no nonzero
\* dimension it becomes the given shape, whatever the ranks; otherwise, when the ranks are
\* equal, each 0 becomes the given shape's dimension at that place and every other
\* dimension stays as it is.
C10_InferredShape ==
    [][(lastOp' = "InferInputDimsFrom" /\ Pending(node) /\ ~NoZeroDimension(node.m_sampleLayout)) =>
          \A peer \in FullShapes :
             node' = InferInputDimsFrom(Entry, peer) =>
                LET own == node.m_sampleLayout
                IN  IF \A i \in 1..Len(own) : own[i] = 0
                    THEN node'.m_sampleLayout = peer
                    ELSE Len(own) = Len(peer) =>
                            /\ Len(node'.m_sampleLayout) = Len(own)
                            /\ \A i \in 1..Len(own) :
                                  node'.m_sampleLayout[i] = IF own[i] = 0 THEN peer[i] ELSE own[i]]_vars

C10_Witness ==
    /\ lastOp = "InferInputDimsFrom" /\ ~Failed(node) /\ node.ranInit
    /\ node.m_sampleLayout = <<2, 1>> /\ node.m_initValue = 1
    /\ FilledWith(node, ConstElem(1))

HasAnyDimension(dims) == \E i \in 1..Len(dims) : dims[i] # 0
\* the shape, the matrix and m_initString of n are those of was
SameParameter(n, was) ==
    /\ n.m_sampleLayout = was.m_sampleLayout
    /\ n.m_value = was.m_value
    /\ n.m_initString = was.m_initString

\* C11, as claimed: InferInputDimsFrom changes neither the shape nor the matrix nor
\* m_initString and raises nothing when the shape of the node has no zero dimension, and
\* when it has a nonzero dimension, a zero dimension and a rank other than the peer's.
C11_SkipsSilently ==
    [][lastOp' = "InferInputDimsFrom" =>
          LET own == node.m_sampleLayout
          IN  /\ NoZeroDimension(own) => (SameParameter(node', node) /\ ~Failed(node'))
              /\ (HasAnyDimension(own) /\ HasZeroDimension(own)) =>
                    \A peer \in {p \in PeerShapes : Len(p) # Len(own)} :
                       node' = InferInputDimsFrom(Entry, peer) =>
                          (SameParameter(node', node) /\ ~Failed(node'))]_vars

\* C11, amended: in both cases the shape, the matrix and m_initString stay as they were;
\* nothing is raised in the first case, and in the second nothing is raised when an
\* initialization is pending or the peer's shape has no elements, while with m_initString
\* empty and a peer shape without zero dimension the call raises LogicError.
C11_SkipsUnchanged ==
    [][lastOp' = "InferInputDimsFrom" =>
          LET own == node.m_sampleLayout
          IN  /\ NoZeroDimension(own) => (SameParameter(node', node) /\ ~Failed(node'))
              /\ (HasAnyDimension(own) /\ HasZeroDimension(own)) =>
                    \A peer \in {p \in PeerShapes : Len(p) # Len(own)} :
                       node' = InferInputDimsFrom(Entry, peer) =>
                          /\ SameParameter(node', node)
                          /\ IF Pending(node) \/ ~NoZeroDimension(peer)
                             THEN ~Failed(node')
                             ELSE node'.err = "LogicError"]_vars

C11_Witness ==
    /\ lastOp = "InferInputDimsFrom" /\ ~Failed(node)
    /\ node.m_initString = "gaussian" /\ node.m_sampleLayout = <<2, 0>>
    /\ FilledWith(node, InvalidElem)

\* C12: a construction whose config names no init takes the matrix from the file when
\* initFromFilePath is given, whatever initValue is; else it records the scalar initValue
\* as fromValue, and fails with InvalidArgument on an array (fromValueArray is selected,
\* and is not implemented) or on any other initValue that is not a string; else it fails
\* with InvalidArgument on a string that is not empty; else it records uniform.
C12_StrategyResolution ==
    [][(lastOp = "new" /\ lastOp' = "Construct") =>
          \A cfg \in Configs :
             (/\ cfg.init = ""
              /\ ~(cfg.learningRateMultiplier < 0 /\ cfg.needsGradient)
              /\ node' = ConstructFromConfig(node, randomSeed[node.ElemType], cfg).node) =>
                IF cfg.initFromFilePath.name # ""
                THEN /\ node'.m_initValue = 0
                     /\ \/ Failed(node')
                        \/ ~Pending(node') /\ FilledBy(node', [node' EXCEPT !.m_initString = "file"])
                ELSE IF cfg.initValue.type = "Double"
                THEN /\ ~Failed(node') /\ node'.m_initValue = cfg.initValue.num
                     /\ \/ node'.m_initString = "fromValue"
                        \/ ~Pending(node') /\ FilledWith(node', ConstElem(cfg.initValue.num))
                ELSE IF cfg.initValue.type # "String" THEN node'.err = "InvalidArgument"
                ELSE IF cfg.initValue.str # "" THEN node'.err = "InvalidArgument"
                ELSE /\ ~Failed(node')
                     /\ \/ node'.m_initString = "uniform"
                        \/ ~Pending(node') /\ FilledBy(node', [node' EXCEPT !.m_initString = "uniform"])]_vars

C12_Witness ==
    /\ lastOp = "Construct" /\ ~Failed(node) /\ ~Pending(node)
    /\ node.m_sampleLayout = <<2, 1>> /\ node.m_initValue = 0
    /\ FilledBy(node, [node EXCEPT !.m_initString = "file"])

\* C13: a construction whose config names an init that is none of uniform, gaussian, zero,
\* fromValue, fromValueArray, fromFile, fixedValue, fromLiteral fails with InvalidArgument.
C13_UnknownTokenInvalidArgument ==
    [][(lastOp = "new" /\ lastOp' = "Construct") =>
          \A cfg \in Configs :
             (/\ cfg.init \notin {"", "uniform", "gaussian", "zero", "fromValue", "fromValueArray",
                                  "fromFile", "fixedValue", "fromLiteral"}
              /\ node' = ConstructFromConfig(node, randomSeed[node.ElemType], cfg).node) =>
                node'.err = "InvalidArgument"]_vars

\* the number of constructions of the process so far that took their seed from a counter
DefaultedSeeds == (randomSeed["float"] - 1) + (randomSeed["double"] - 1)

\* C14: the constructions of a process share one counter that starts at 1: the k-th
\* construction that takes its seed from it records seed k, and the counter never
\* decreases; a construction with a forced seed, or with no random initialization, leaves
\* it as it is.
C14_OneSharedCounter ==
    /\ [][DefaultedSeeds' \in {DefaultedSeeds, DefaultedSeeds + 1}]_vars
    /\ [][DefaultedSeeds' = DefaultedSeeds + 1 =>
             (lastOp' = "Construct" /\ node'.m_randomSeed = DefaultedSeeds')]_vars
    /\ [][(lastOp' = "Construct" /\ node'.m_randomSeed # DefaultedSeeds') =>
             DefaultedSeeds' = DefaultedSeeds]_vars

\* C15: FreezeParameters leaves the multiplier 0, whatever it was, and the shape, the
\* matrix and m_initString as they were; a second call right after it changes nothing.
C15_FreezeIdempotent ==
    /\ [][lastOp' = "FreezeParameters" =>
             (/\ node'.m_learningRateMultiplier = 0
              /\ SameParameter(node', node)
              /\ ~Failed(node'))]_vars
    /\ [][(lastOp = "FreezeParameters" /\ lastOp' = "FreezeParameters") => node' = node]_vars

C15_Witness ==
    /\ lastOp = "FreezeParameters" /\ node.m_learningRateMultiplier = 0
    /\ node.m_initString = "uniform" /\ node.m_sampleLayout = <<2, 0>>

\* C16: whenever the load inside ReviseFromFile fails (the file cannot be read, the shape
\* cannot be inferred, the matrix has not the size of the shape), ReviseFromFile raises
\* RuntimeError, and it raises nothing else.
C16_ReviseWrapsFailures ==
    /\ [][lastOp' = "ReviseFromFile" =>
             \A file \in Files :
                node' = ReviseFromFile(Entry, file) =>
                   IF Failed(InitFromFile(Entry, file))
                   THEN node'.err = "RuntimeError"
                   ELSE ~Failed(node')]_vars
    /\ [](lastOp = "ReviseFromFile" => node.err \in {"none", "RuntimeError"})
    /\ [](\E file \in Files :
            /\ InitFromFile(PlainConstructor(<<0, 0, 0>>), file).err = "InvalidArgument"
            /\ InitFromFile(PlainConstructor(<<0, 2, 0>>), [file EXCEPT !.cols = 1]).err = "InvalidArgument"
            /\ InitFromFile(PlainConstructor(<<3>>), file).err = "LogicError")

\* a file whose matrix has not the size of the shape was given: the matrix is replaced
C16_Witness ==
    /\ lastOp = "ReviseFromFile" /\ node.err = "RuntimeError"
    /\ node.m_sampleLayout = <<3, 1, 2>>
    /\ node.m_value.rows = 2 /\ node.m_value.cols = 2
    /\ node.m_value.data[1] = ArrayElem("file", 1)

\* C17, as claimed: a construction with init fixedValue or fromLiteral that succeeds
\* returns with the matrix filled and m_initString empty, for every shape, those with a
\* zero dimension included.
C17_DeprecatedNotDeferred ==
    [][(lastOp = "new" /\ lastOp' = "Construct") =>
          \A cfg \in Configs :
             (/\ cfg.init \in {"fixedValue", "fromLiteral"}
              /\ node' = ConstructFromConfig(node, randomSeed[node.ElemType], cfg).node
              /\ ~Failed(node')) =>
                /\ ~Pending(node')
                /\ IF cfg.init = "fixedValue"
                   THEN FilledWith(node', ConstElem(cfg.value))
                   ELSE FilledBy(node', [node' EXCEPT !.m_initString = "literal"])]_vars

\* C17, amended: fromLiteral is as claimed, and its shape has no zero dimension on return;
\* fixedValue is recorded as fromValue with the given value, and fills the matrix in the
\* constructor only when the shape has no zero dimension: else it stays pending and the
\* matrix is as the delegated constructor left it.
C17_FixedValueDeferred ==
    [][(lastOp = "new" /\ lastOp' = "Construct") =>
          \A cfg \in Configs :
             (/\ cfg.init \in {"fixedValue", "fromLiteral"}
              /\ node' = ConstructFromConfig(node, randomSeed[node.ElemType], cfg).node
              /\ ~Failed(node')) =>
                IF cfg.init = "fromLiteral"
                THEN /\ ~Pending(node') /\ NoZeroDimension(node'.m_sampleLayout)
                     /\ FilledBy(node', [node' EXCEPT !.m_initString = "literal"])
                ELSE /\ node'.m_initValue = cfg.value
                     /\ IF NoZeroDimension(node.m_sampleLayout)
                        THEN ~Pending(node') /\ FilledWith(node', ConstElem(cfg.value))
                        ELSE node'.m_initString = "fromValue" /\ node'.m_value = node.m_value]_vars

C17_Witness ==
    /\ lastOp = "Construct" /\ ~Failed(node) /\ ~Pending(node)
    /\ node.m_sampleLayout = <<1, 2>>
    /\ FilledBy(node, [node EXCEPT !.m_initString = "literal"])

\* C18: a node whose m_initString is non-empty has an empty shape or a zero dimension.
C18_PendingOnlyWhileShapeIncomplete ==
    (Alive /\ Pending(node)) => ~NoZeroDimension(node.m_sampleLayout)

\* C19: when InferInputDimsFrom gives the node a new shape (a pending node without any
\* nonzero dimension, or with zero dimensions and the rank of a fully known given shape),
\* it returns with a shape without zero dimension, the matrix filled by the strategy that
\* was pending, and m_initString empty.
C19_InferenceThenInitialization ==
    [][(lastOp' = "InferInputDimsFrom" /\ node'.m_sampleLayout # node.m_sampleLayout) =>
          /\ Pending(node) /\ ~NoZeroDimension(node.m_sampleLayout)
          /\ (HasAnyDimension(node.m_sampleLayout) =>
                 Len(node'.m_sampleLayout) = Len(node.m_sampleLayout))
          /\ NoZeroDimension(node'.m_sampleLayout)
          /\ ~Failed(node') /\ node'.ranInit
          /\ FilledBy(node', node)
          /\ ~Pending(node')]_vars

C19_Witness ==
    /\ lastOp = "InferInputDimsFrom" /\ node.ranInit /\ ~Pending(node)
    /\ node.m_sampleLayout = <<1, 2>> /\ node.m_randomSeed = 1
    /\ FilledBy(node, [node EXCEPT !.m_initString = "gaussian"])

\* C20: LazyInitParameters changes nothing when m_initString is empty; with m_initString
\* non-empty and a shape that is empty or has a zero dimension it leaves the matrix and the
\* pending strategy as they are; with m_initString non-empty and a shape without zero
\* dimension it fills the matrix by the recorded strategy and empties m_initString.
C20_LazyInitCases ==
    [][lastOp' = "LazyInitParameters" =>
          /\ ~Failed(node')
          /\ node'.m_sampleLayout = node.m_sampleLayout
          /\ IF ~Pending(node)
             THEN SameParameter(node', node) /\ ~node'.ranInit
                  /\ node' = [node EXCEPT !.err = "none", !.ranInit = FALSE]
             ELSE IF ~NoZeroDimension(node.m_sampleLayout)
             THEN SameParameter(node', node) /\ ~node'.ranInit
             ELSE FilledBy(node', node) /\ ~Pending(node') /\ node'.ranInit]_vars

C20_Witness ==
    /\ lastOp = "LazyInitParameters" /\ node.ranInit /\ ~Pending(node)
    /\ node.m_sampleLayout = <<2, 2>> /\ node.m_initValueScale = 1
    /\ FilledBy(node, [node EXCEPT !.m_initString = "uniform"])

\* the recorded initialization of n is that of was
SameInitialization(n, was) ==
    /\ n.m_initString = was.m_initString
    /\ n.m_randomSeed = was.m_randomSeed
    /\ n.m_initValueScale = was.m_initValueScale
    /\ n.m_initOnCPUOnly = was.m_initOnCPUOnly
    /\ n.m_initValue = was.m_initValue

\* C21: ReviseFromFile, on a node with or without a pending initialization, leaves
\* m_initString, the seed, the scale and the value of the recorded initialization as they
\* were, whether it fails or not; when it succeeds the matrix holds the file's matrix.
C21_ReviseBypassesPending ==
    [][lastOp' = "ReviseFromFile" =>
          /\ SameInitialization(node', node)
          /\ node'.ranInit = FALSE
          /\ ~Failed(node') =>
                /\ \E file \in Files :
                      /\ file.readable
                      /\ node'.m_value.rows = file.rows /\ node'.m_value.cols = file.cols
                /\ FilledBy(node', [node' EXCEPT !.m_initString = "file"])]_vars

C21_Witness ==
    /\ lastOp = "ReviseFromFile" /\ ~Failed(node)
    /\ node.m_initString = "uniform" /\ node.m_randomSeed = 1
    /\ node.m_sampleLayout = <<2, 1>>
    /\ FilledBy(node, [node EXCEPT !.m_initString = "file"])

\* the node with the initialization that PostInitParameters records for its arguments
Requested(n, initString, initValue, seed, initOnCPUOnly) ==
    IF initString = "fixedValue"
    THEN [n EXCEPT !.m_initString = "fromValue", !.m_initValue = initValue]
    ELSE [n EXCEPT !.m_initString = initString, !.m_randomSeed = seed,
                   !.m_initValueScale = initValue, !.m_initOnCPUOnly = initOnCPUOnly]

\* C22: PostInitParameters with uniform, gaussian or fixedValue never fails and keeps the
\* shape; whatever initialization the node had, pending or executed, on a shape without
\* zero dimension the matrix is filled by the new strategy in the call and m_initString is
\* empty on return, and on an empty shape or one with a zero dimension the new strategy
\* is the pending one and the matrix is as it was.
C22_PostInitReplaces ==
    [][lastOp' = "PostInitParameters" =>
          \A initString \in {"uniform", "gaussian", "fixedValue"}, initValue \in Values, seed \in Seeds :
             node' = PostInitParameters(Entry, initString, initValue, seed, FALSE) =>
                LET req == Requested(node, initString, initValue, seed, FALSE)
                IN  /\ ~Failed(node')
                    /\ node'.m_sampleLayout = node.m_sampleLayout
                    /\ IF NoZeroDimension(node.m_sampleLayout)
                       THEN /\ ~Pending(node') /\ node'.ranInit
                            /\ FilledBy(node', req)
                            /\ SameInitialization(node', [req EXCEPT !.m_initString = ""])
                       ELSE /\ Pending(node') /\ ~node'.ranInit
                            /\ SameInitialization(node', req)
                            /\ node'.m_value = node.m_value]_vars

C22_Witness ==
    /\ lastOp = "PostInitParameters" /\ ~Pending(node) /\ node.ranInit
    /\ node.m_sampleLayout = <<2, 2>> /\ node.m_initValue = 1 /\ node.m_initValueScale = 1
    /\ FilledBy(node, [node EXCEPT !.m_initString = "gaussian"])

\* C23: InferInputDimsFrom on a node with m_initString empty and a shape that is empty or
\* has a zero dimension raises LogicError when the given shape has no zero dimension, and
\* raises nothing when the given shape is empty or has a zero dimension; either way the
\* shape, the matrix and m_initString stay as they were.
C23_InferWithoutPendingFails ==
    [][(lastOp' = "InferInputDimsFrom" /\ ~Pending(node) /\ ~NoZeroDimension(node.m_sampleLayout)) =>
          \A peer \in PeerShapes :
             node' = InferInputDimsFrom(Entry, peer) =>
                /\ SameParameter(node', node)
                /\ ~node'.ranInit
                /\ IF NoZeroDimension(peer)
                   THEN node'.err = "LogicError"
                   ELSE ~Failed(node')]_vars

C23_Witness ==
    /\ lastOp = "InferInputDimsFrom" /\ node.err = "LogicError"
    /\ ~Pending(node) /\ node.m_sampleLayout = <<0, 2>>
    /\ node.m_value.rows = 0

====
